---- MODULE Spec2Model ----
(***************************************************************************)
(* Scope-expression engine of apioid (scopes.ts): parse = tokenize ->      *)
(* applyPrecedence -> prepareExpr, and the evaluator closures              *)
(* scopeWildcard / scopeLiteral / scopeNegate / scopeJoin / scopeIntersect.*)
(*                                                                         *)
(* A string is a sequence of one-character strings.  A token is a string   *)
(* in that sense, so the operator token "|" is <<"|">>.  A ScopeInfo is a  *)
(* function from field names to sets of scope tags (the code only tests    *)
(* membership with Array.includes); a field that is not a key is outside   *)
(* its DOMAIN.  A compiled expression (a closure in the source) is a       *)
(* record naming the closure and its captured values.                      *)
(***************************************************************************)
EXTENDS Integers, Sequences, FiniteSets, TLC

\* ------------------------------------------------------------------ bounds
MaxLen == 4          \* longest expression string, in characters
MaxFields == 2       \* longest fields sequence passed to an evaluator

\* ------------------------------------------------------------- alphabet
Separators == {"(", ")", "|", "&", "!"}
Whitespace == {" "}
Letters == {"a", "b", "*"}
Chars == Separators \cup Whitespace \cup Letters

LParen == <<"(">>
RParen == <<")">>
OrTok == <<"|">>
AndTok == <<"&">>
NotTok == <<"!">>
StarTok == <<"*">>
Operators == {OrTok, AndTok, NotTok}

FieldNames == {"id", "name"}
Scopes == {<<"a">>, <<"b">>}

Strings == UNION {[1..n -> Chars] : n \in 0..MaxLen}
ScopeInfos == UNION {[K -> SUBSET Scopes] : K \in SUBSET FieldNames}
FieldSeqs == UNION {[1..n -> FieldNames] : n \in 0..MaxFields}

Range(s) == {s[k] : k \in DOMAIN s}
Last(s) == s[Len(s)]
Front(s) == SubSeq(s, 1, Len(s) - 1)

\* ------------------------------------------------------------- tokenize
\* String.prototype.trim
RECURSIVE trim(_)
trim(x) ==
    IF x = <<>> THEN x
    ELSE IF Head(x) \in Whitespace THEN trim(Tail(x))
    ELSE IF Last(x) \in Whitespace THEN trim(Front(x))
    ELSE x

\* expr.split(/([()|&!])/): the pieces between separators, with every
\* separator kept as a piece of its own (capture group).
RECURSIVE split(_)
split(s) ==
    IF \A k \in DOMAIN s : s[k] \notin Separators THEN <<s>>
    ELSE LET k == CHOOSE m \in DOMAIN s :
                     /\ s[m] \in Separators
                     /\ \A n \in 1..(m - 1) : s[n] \notin Separators
         IN <<SubSeq(s, 1, k - 1), <<s[k]>>>> \o split(SubSeq(s, k + 1, Len(s)))

tokenize(e) ==
    LET trimmed == [k \in DOMAIN split(e) |-> trim(split(e)[k])]
    IN SelectSeq(trimmed, LAMBDA x : x # <<>>)

\* ------------------------------------------------------ applyPrecedence
opPrecedence(op) ==
    CASE op = OrTok -> 1
      [] op = AndTok -> 2
      [] op = NotTok -> 3

\* The while loop of the operator case: pop operators of equal or higher
\* precedence into the output, stopping at "(" or at a lower precedence.
RECURSIVE popHigher(_, _, _)
popHigher(ops, out, precedence) ==
    IF Len(ops) = 0 THEN [opStack |-> ops, outputStack |-> out]
    ELSE IF Last(ops) = LParen THEN [opStack |-> ops, outputStack |-> out]
    ELSE IF opPrecedence(Last(ops)) < precedence
         THEN [opStack |-> ops, outputStack |-> out]
    ELSE popHigher(Front(ops), Append(out, Last(ops)), precedence)

precOperator(ops, out, current) ==
    LET p == popHigher(ops, out, opPrecedence(current))
    IN [opStack |-> Append(p.opStack, current), outputStack |-> p.outputStack]

precOpen(ops, out) ==
    [opStack |-> Append(ops, LParen), outputStack |-> out]

\* The while loop of the ")" case.
RECURSIVE popToOpen(_, _)
popToOpen(ops, out) ==
    IF Len(ops) > 0 /\ Last(ops) # LParen
    THEN popToOpen(Front(ops), Append(out, Last(ops)))
    ELSE [opStack |-> ops, outputStack |-> out]

\* Mutant of precClose: the pop after the loop is made on the output.
precCloseWrongPop(ops, out) ==
    LET p == popToOpen(ops, out)
    IN [opStack |-> p.opStack,
        outputStack |-> IF Len(p.outputStack) > 0 THEN Front(p.outputStack)
                        ELSE p.outputStack]

\* case ')': the loop, then opStack.pop(), which does nothing on an empty
\* array.
precClose(ops, out) ==
    LET p == popToOpen(ops, out)
    IN [opStack |-> IF Len(p.opStack) > 0 THEN Front(p.opStack) ELSE p.opStack,
        outputStack |-> p.outputStack]

precLiteral(ops, out, current) ==
    [opStack |-> ops, outputStack |-> Append(out, current)]

\* One iteration of the for loop over the tokens.
precToken(ops, out, current) ==
    CASE current \in Operators -> precOperator(ops, out, current)
      [] current = LParen -> precOpen(ops, out)
      [] current = RParen -> precClose(ops, out)
      [] OTHER -> precLiteral(ops, out, current)

\* Mutant of hasOpenParen: only the top of the operator stack is looked at.
hasOpenParenTopOnly(ops) == Len(ops) > 0 /\ Last(ops) = LParen

\* The test after the loop.
hasOpenParen(ops) == \E k \in DOMAIN ops : ops[k] = LParen

\* outputStack.push(...opStack): bottom-to-top order of the array.
flushOps(ops, out) == out \o ops

RECURSIVE precLoop(_, _, _)
precLoop(ops, out, toks) ==
    IF toks = <<>> THEN [opStack |-> ops, outputStack |-> out]
    ELSE LET st == precToken(ops, out, Head(toks))
         IN precLoop(st.opStack, st.outputStack, Tail(toks))

applyPrecedence(toks) ==
    LET st == precLoop(<<>>, <<>>, toks)
    IN IF hasOpenParen(st.opStack)
       THEN [threw |-> TRUE, steps |-> <<>>]
       ELSE [threw |-> FALSE, steps |-> flushOps(st.opStack, st.outputStack)]

\* ---------------------------------------------------------- the closures
\* What a closure returns: a field sequence, or a TypeError thrown while it
\* ran.
Returned(v) == [threw |-> FALSE, val |-> v]
TypeError == [threw |-> TRUE, val |-> <<>>]

\* stack.pop() of an empty array
Undefined == [fn |-> "undefined"]
Wildcard == [fn |-> "scopeWildcard"]
Literal(s) == [fn |-> "scopeLiteral", scope |-> s]
Negate(e) == [fn |-> "scopeNegate", subexpr |-> e]
Join(l, r) == [fn |-> "scopeJoin", left |-> l, right |-> r]
Intersect(l, r) == [fn |-> "scopeIntersect", left |-> l, right |-> r]

includes(arr, x) == \E k \in DOMAIN arr : arr[k] = x

\* Array.from(new Set(arr).values()): first occurrences, in order.
RECURSIVE dedupe(_)
dedupe(arr) ==
    IF arr = <<>> THEN <<>>
    ELSE LET rest == dedupe(Front(arr))
         IN IF includes(rest, Last(arr)) THEN rest ELSE Append(rest, Last(arr))

RECURSIVE Call(_, _, _)

scopeWildcard(info, fields) == Returned(fields)

\* fields.filter(f => info[f].includes(scope)): info[f] is undefined for a
\* field that is not a key, and reading .includes of undefined throws.
scopeLiteral(scope, info, fields) ==
    IF \E k \in DOMAIN fields : fields[k] \notin DOMAIN info
    THEN TypeError
    ELSE Returned(SelectSeq(fields, LAMBDA f : scope \in info[f]))

\* Mutant of scopeNegate: the complement is taken in the keys of info.
scopeNegateAllKeys(subexpr, info, fields) ==
    LET excludedFields == Call(subexpr, info, fields)
        keys == SelectSeq(<<"id", "name">>, LAMBDA f : f \in DOMAIN info)
    IN IF excludedFields.threw THEN TypeError
       ELSE Returned(SelectSeq(keys, LAMBDA f : ~includes(excludedFields.val, f)))

scopeNegate(subexpr, info, fields) ==
    LET excludedFields == Call(subexpr, info, fields)
    IN IF excludedFields.threw THEN TypeError
       ELSE Returned(SelectSeq(fields, LAMBDA f : ~includes(excludedFields.val, f)))

\* Mutant of scopeJoin: the results of right are left out.
scopeJoinLeftOnly(left, right, info, fields) ==
    LET l == Call(left, info, fields)
        r == Call(right, info, fields)
    IN IF l.threw \/ r.threw THEN TypeError
       ELSE Returned(dedupe(l.val))

scopeJoin(left, right, info, fields) ==
    LET l == Call(left, info, fields)
        r == Call(right, info, fields)
    IN IF l.threw \/ r.threw THEN TypeError
       ELSE Returned(dedupe(l.val \o r.val))

scopeIntersect(left, right, info, fields) ==
    LET includedFields == Call(right, info, fields)
        l == Call(left, info, fields)
    IN IF includedFields.threw \/ l.threw THEN TypeError
       ELSE Returned(SelectSeq(l.val, LAMBDA f : includes(includedFields.val, f)))

\* scopeExpr(info, fields); calling undefined throws.
Call(e, info, fields) ==
    CASE e.fn = "undefined" -> TypeError
      [] e.fn = "scopeWildcard" -> scopeWildcard(info, fields)
      [] e.fn = "scopeLiteral" -> scopeLiteral(e.scope, info, fields)
      [] e.fn = "scopeNegate" -> scopeNegate(e.subexpr, info, fields)
      [] e.fn = "scopeJoin" -> scopeJoin(e.left, e.right, info, fields)
      [] e.fn = "scopeIntersect" -> scopeIntersect(e.left, e.right, info, fields)

\* ---------------------------------------------------------- prepareExpr
Thrown == [threw |-> TRUE, stack |-> <<>>]
Pushed(st) == [threw |-> FALSE, stack |-> st]

\* case '|': the first pop is named left, the second right.
prepJoin(stack) ==
    IF Len(stack) < 2 THEN Thrown
    ELSE LET left == stack[Len(stack)]
             right == stack[Len(stack) - 1]
         IN Pushed(Append(SubSeq(stack, 1, Len(stack) - 2), Join(left, right)))

prepIntersect(stack) ==
    IF Len(stack) < 2 THEN Thrown
    ELSE LET left == stack[Len(stack)]
             right == stack[Len(stack) - 1]
         IN Pushed(Append(SubSeq(stack, 1, Len(stack) - 2), Intersect(left, right)))

prepNegate(stack) ==
    IF Len(stack) < 1 THEN Thrown
    ELSE Pushed(Append(Front(stack), Negate(Last(stack))))

prepWildcard(stack) == Pushed(Append(stack, Wildcard))

prepLiteral(stack, s) == Pushed(Append(stack, Literal(s)))

\* One iteration of the for loop over the postfix steps.
prepStep(stack, s) ==
    CASE s = OrTok -> prepJoin(stack)
      [] s = AndTok -> prepIntersect(stack)
      [] s = NotTok -> prepNegate(stack)
      [] s = StarTok -> prepWildcard(stack)
      [] OTHER -> prepLiteral(stack, s)

\* return stack.pop()
prepReturn(stack) == IF Len(stack) = 0 THEN Undefined ELSE Last(stack)

RECURSIVE prepLoop(_, _)
prepLoop(stack, todo) ==
    IF todo = <<>> THEN Pushed(stack)
    ELSE LET r == prepStep(stack, Head(todo))
         IN IF r.threw THEN Thrown ELSE prepLoop(r.stack, Tail(todo))

prepareExpr(todo) ==
    LET r == prepLoop(<<>>, todo)
    IN IF r.threw THEN [threw |-> TRUE, expr |-> Undefined]
       ELSE [threw |-> FALSE, expr |-> prepReturn(r.stack)]

\* parse, from the token sequence on
parseTokens(toks) ==
    LET p == applyPrecedence(toks)
    IN IF p.threw THEN [threw |-> TRUE, expr |-> Undefined]
       ELSE prepareExpr(p.steps)

parse(e) == parseTokens(tokenize(e))

\* ---------------------------------------------------------------- state
VARIABLES
    expr,          \* the argument of parse
    pc,            \* where parse is: "tokenize", "applyPrecedence",
                   \* "prepareExpr", "returned", "ParseError"
    tokens,        \* applyPrecedence: its argument
    pos,           \* applyPrecedence: index of the token the loop is at
    opStack,
    outputStack,
    steps,         \* prepareExpr: its argument
    stepPos,       \* prepareExpr: index of the step the loop is at
    stack,         \* prepareExpr: the operand stack
    raisedIn,      \* the function that threw ParseError, or "none"
    scopeExpr,     \* the value parse returned
    info,          \* the arguments of the latest call of scopeExpr
    fields,
    outcome        \* what that call did

vars == <<expr, pc, tokens, pos, opStack, outputStack, steps, stepPos, stack,
          raisedIn, scopeExpr, info, fields, outcome>>

NotCalled == [called |-> FALSE, threw |-> FALSE, val |-> <<>>]

Init ==
    /\ expr \in Strings
    /\ pc = "tokenize"
    /\ tokens = <<>>
    /\ pos = 0
    /\ opStack = <<>>
    /\ outputStack = <<>>
    /\ steps = <<>>
    /\ stepPos = 0
    /\ stack = <<>>
    /\ raisedIn = "none"
    /\ scopeExpr = Undefined
    /\ info = <<>>
    /\ fields = <<>>
    /\ outcome = NotCalled

evalVars == <<scopeExpr, info, fields, outcome>>
prepVars == <<steps, stepPos, stack>>

Tokenize ==
    /\ pc = "tokenize"
    /\ tokens' = tokenize(expr)
    /\ pos' = 1
    /\ pc' = "applyPrecedence"
    /\ UNCHANGED <<expr, opStack, outputStack, raisedIn>>
    /\ UNCHANGED prepVars
    /\ UNCHANGED evalVars

PrecApply(st) ==
    /\ opStack' = st.opStack
    /\ outputStack' = st.outputStack
    /\ pos' = pos + 1
    /\ UNCHANGED <<expr, pc, tokens, raisedIn>>
    /\ UNCHANGED prepVars
    /\ UNCHANGED evalVars

AtToken == pc = "applyPrecedence" /\ pos <= Len(tokens)

PrecOperator ==
    /\ AtToken
    /\ tokens[pos] \in Operators
    /\ PrecApply(precOperator(opStack, outputStack, tokens[pos]))

PrecOpen ==
    /\ AtToken
    /\ tokens[pos] = LParen
    /\ PrecApply(precOpen(opStack, outputStack))

PrecClose ==
    /\ AtToken
    /\ tokens[pos] = RParen
    /\ PrecApply(precClose(opStack, outputStack))

PrecLiteral ==
    /\ AtToken
    /\ tokens[pos] \notin Operators \cup {LParen, RParen}
    /\ PrecApply(precLiteral(opStack, outputStack, tokens[pos]))

PrecThrow ==
    /\ pc = "applyPrecedence"
    /\ pos > Len(tokens)
    /\ hasOpenParen(opStack)
    /\ pc' = "ParseError"
    /\ raisedIn' = "applyPrecedence"
    /\ UNCHANGED <<expr, tokens, pos, opStack, outputStack>>
    /\ UNCHANGED prepVars
    /\ UNCHANGED evalVars

PrecReturn ==
    /\ pc = "applyPrecedence"
    /\ pos > Len(tokens)
    /\ ~hasOpenParen(opStack)
    /\ outputStack' = flushOps(opStack, outputStack)
    /\ steps' = outputStack'
    /\ stepPos' = 1
    /\ pc' = "prepareExpr"
    /\ UNCHANGED <<expr, tokens, pos, opStack, raisedIn, stack>>
    /\ UNCHANGED evalVars

AtStep == pc = "prepareExpr" /\ stepPos <= Len(steps)

PrepApply(r) ==
    /\ IF r.threw
       THEN /\ pc' = "ParseError"
            /\ raisedIn' = "prepareExpr"
            /\ UNCHANGED <<stack, stepPos>>
       ELSE /\ stack' = r.stack
            /\ stepPos' = stepPos + 1
            /\ UNCHANGED <<pc, raisedIn>>
    /\ UNCHANGED <<expr, tokens, pos, opStack, outputStack, steps>>
    /\ UNCHANGED evalVars

PrepJoin == AtStep /\ steps[stepPos] = OrTok /\ PrepApply(prepJoin(stack))

PrepIntersect == AtStep /\ steps[stepPos] = AndTok /\ PrepApply(prepIntersect(stack))

PrepNegate == AtStep /\ steps[stepPos] = NotTok /\ PrepApply(prepNegate(stack))

PrepWildcard == AtStep /\ steps[stepPos] = StarTok /\ PrepApply(prepWildcard(stack))

PrepLiteral ==
    /\ AtStep
    /\ steps[stepPos] \notin Operators \cup {StarTok}
    /\ PrepApply(prepLiteral(stack, steps[stepPos]))

PrepReturn ==
    /\ pc = "prepareExpr"
    /\ stepPos > Len(steps)
    /\ scopeExpr' = prepReturn(stack)
    /\ stack' = IF Len(stack) = 0 THEN stack ELSE Front(stack)
    /\ pc' = "returned"
    /\ UNCHANGED <<expr, tokens, pos, opStack, outputStack, steps, stepPos,
                   raisedIn, info, fields, outcome>>

\* Model.view: the value parse returned is called with a ScopeInfo and a
\* field sequence.  The closures keep no state, so one call per parse shows
\* all a call can do.
Evaluate ==
    /\ pc = "returned"
    /\ ~outcome.called
    /\ \E i \in ScopeInfos, fs \in FieldSeqs :
          /\ info' = i
          /\ fields' = fs
          /\ outcome' = [called |-> TRUE] @@ Call(scopeExpr, i, fs)
    /\ UNCHANGED <<expr, pc, tokens, pos, opStack, outputStack, raisedIn,
                   scopeExpr>>
    /\ UNCHANGED prepVars

Next ==
    \/ Tokenize
    \/ PrecOperator
    \/ PrecOpen
    \/ PrecClose
    \/ PrecLiteral
    \/ PrecThrow
    \/ PrecReturn
    \/ PrepJoin
    \/ PrepIntersect
    \/ PrepNegate
    \/ PrepWildcard
    \/ PrepLiteral
    \/ PrepReturn
    \/ Evaluate

Spec == Init /\ [][Next]_vars

\* The state machine computes what the functions compute.
MachineAgrees ==
    /\ pc = "returned" => /\ ~parse(expr).threw
                          /\ parse(expr).expr = scopeExpr
    /\ pc = "ParseError" => parse(expr).threw
    /\ outcome.called => /\ outcome.threw = Call(scopeExpr, info, fields).threw
                         /\ outcome.val = Call(scopeExpr, info, fields).val

\* ------------------------------------------------- reference notions
\* What the claims speak of, defined without the parser.

IsLiteral(t) == t \notin Operators \cup {LParen, RParen}

NoDuplicates(fs) == \A j, k \in DOMAIN fs : fs[j] = fs[k] => j = k

Covered(i, fs) == \A k \in DOMAIN fs : fs[k] \in DOMAIN i

Tagged(x, i, fs) == SelectSeq(fs, LAMBDA f : x \in i[f])

\* E ::= literal | !E | E&E | E|E | (E), as a scan: operands are expected
\* at the start and after an operator or "(", depth counts the open "(".
RECURSIVE derivable(_, _, _)
derivable(toks, expectOperand, depth) ==
    IF toks = <<>> THEN ~expectOperand /\ depth = 0
    ELSE LET h == Head(toks)
         IN IF expectOperand
            THEN CASE h = NotTok -> derivable(Tail(toks), TRUE, depth)
                   [] h = LParen -> derivable(Tail(toks), TRUE, depth + 1)
                   [] IsLiteral(h) -> derivable(Tail(toks), FALSE, depth)
                   [] OTHER -> FALSE
            ELSE CASE h \in {AndTok, OrTok} -> derivable(Tail(toks), TRUE, depth)
                   [] h = RParen /\ depth > 0 -> derivable(Tail(toks), FALSE, depth - 1)
                   [] OTHER -> FALSE

Grammatical(toks) == derivable(toks, TRUE, 0)

ParenFree(toks) == \A k \in DOMAIN toks : toks[k] \notin {LParen, RParen}

\* A parenthesis-free expression read as a boolean formula over the tags of
\* one field, | loosest, then &, then !.
RECURSIVE holds(_, _)
holds(toks, tags) ==
    IF \E k \in DOMAIN toks : toks[k] = OrTok
    THEN LET k == CHOOSE m \in DOMAIN toks : toks[m] = OrTok
         IN \/ holds(SubSeq(toks, 1, k - 1), tags)
            \/ holds(SubSeq(toks, k + 1, Len(toks)), tags)
    ELSE IF \E k \in DOMAIN toks : toks[k] = AndTok
    THEN LET k == CHOOSE m \in DOMAIN toks : toks[m] = AndTok
         IN /\ holds(SubSeq(toks, 1, k - 1), tags)
            /\ holds(SubSeq(toks, k + 1, Len(toks)), tags)
    ELSE IF Head(toks) = NotTok THEN ~holds(Tail(toks), tags)
    ELSE Head(toks) = StarTok \/ Head(toks) \in tags

\* Some "(" has no later ")" closing it: a ")" closes the nearest open "(".
RECURSIVE openDepth(_, _)
openDepth(toks, depth) ==
    IF toks = <<>> THEN depth
    ELSE CASE Head(toks) = LParen -> openDepth(Tail(toks), depth + 1)
           [] Head(toks) = RParen /\ depth > 0 -> openDepth(Tail(toks), depth - 1)
           [] OTHER -> openDepth(Tail(toks), depth)

HasUnmatchedOpen(toks) == openDepth(toks, 0) > 0

ParseDone == pc \in {"returned", "ParseError"}

\* ----------------------------------------------------------------- claims

\* C1: for a parenthesis-free well-formed expression and a duplicate-free
\* fields sequence covered by the ScopeInfo, the evaluator selects exactly
\* the fields that satisfy the expression read with ! tightest, then &,
\* then |.
C1_PrecedenceSemantics ==
    (/\ outcome.called
     /\ ParenFree(tokens) /\ Grammatical(tokens)
     /\ NoDuplicates(fields) /\ Covered(info, fields))
    => /\ ~outcome.threw
       /\ Range(outcome.val) = {f \in Range(fields) : holds(tokens, info[f])}

\* C2: parse("x|y") returns the fields tagged x in fields order, followed by
\* the fields tagged y and not x in fields order.
C2_UnionOrder ==
    (/\ outcome.called
     /\ Len(tokens) = 3 /\ tokens[2] = OrTok
     /\ IsLiteral(tokens[1]) /\ tokens[1] # StarTok
     /\ IsLiteral(tokens[3]) /\ tokens[3] # StarTok
     /\ NoDuplicates(fields) /\ Covered(info, fields))
    => /\ ~outcome.threw
       /\ LET xs == Tagged(tokens[1], info, fields)
              ys == Tagged(tokens[3], info, fields)
          IN outcome.val = xs \o SelectSeq(ys, LAMBDA f : ~includes(xs, f))

\* C3: calling an evaluator never throws, also when some field is not a key
\* of the ScopeInfo; a Literal node leaves such a field out.
C3_EvaluationTotal ==
    (outcome.called /\ scopeExpr.fn # "undefined")
    => /\ ~outcome.threw
       /\ scopeExpr.fn = "scopeLiteral"
            => \A f \in Range(outcome.val) : f \in DOMAIN info

\* C4: for a well-formed E, the results of parse(E) and parse("!(" + E + ")")
\* on the same duplicate-free covered fields are disjoint and together make
\* up the fields.
C4_ComplementLaw ==
    (/\ outcome.called
     /\ Grammatical(tokens)
     /\ NoDuplicates(fields) /\ Covered(info, fields))
    => LET n == parse(<<"!", "(">> \o expr \o <<")">>)
           N == Call(n.expr, info, fields)
       IN /\ ~n.threw
          /\ ~outcome.threw /\ ~N.threw
          /\ Range(outcome.val) \cup Range(N.val) = Range(fields)
          /\ Range(outcome.val) \cap Range(N.val) = {}

\* C5: an input whose postfix sequence is empty makes parse fail with
\* ParseError in the compiler; parse never returns a value that is not an
\* evaluator.
C5_EmptyInputFails ==
    /\ (ParseDone /\ raisedIn # "applyPrecedence" /\ steps = <<>>)
          => (pc = "ParseError" /\ raisedIn = "prepareExpr")
    /\ pc = "returned" => scopeExpr.fn # "undefined"

\* C6: every expression derivable from E ::= literal | !E | E&E | E|E | (E)
\* is parsed without ParseError.
C6_GrammaticalAccepted ==
    Grammatical(tokens) => pc # "ParseError"

\* C7: when some "(" is not closed by a later ")", parse never gets past
\* applyPrecedence: once the tokens are consumed a "(" is on the operator
\* stack, ParseError is raised there, and no step of prepareExpr has run.
C7_UnmatchedOpenRaises ==
    HasUnmatchedOpen(tokens)
    => /\ pc \in {"applyPrecedence", "ParseError"}
       /\ (pc = "applyPrecedence" /\ pos > Len(tokens)) => hasOpenParen(opStack)
       /\ pc = "ParseError" => /\ raisedIn = "applyPrecedence"
                               /\ pos = Len(tokens) + 1
                               /\ steps = <<>> /\ stepPos = 0 /\ stack = <<>>

C7_Witness ==
    /\ pc = "ParseError"
    /\ raisedIn = "applyPrecedence"
    /\ HasUnmatchedOpen(tokens)
    /\ Len(tokens) = 3
    /\ tokens[1] = RParen /\ tokens[2] = LParen /\ IsLiteral(tokens[3])

\* C8: a ")" that arrives while the operator stack is empty raises nothing
\* and leaves the operator stack and the output unchanged; parse("a)") does
\* not raise and its evaluator does, on every (ScopeInfo, fields), what the
\* evaluator of parse("a") does.
C8_UnmatchedCloseIgnored ==
    /\ [][(AtToken /\ tokens[pos] = RParen /\ opStack = <<>>)
            => /\ opStack' = opStack
               /\ outputStack' = outputStack
               /\ pc' = "applyPrecedence"
               /\ raisedIn' = "none"]_vars
    /\ []((Len(tokens) = 2 /\ IsLiteral(tokens[1]) /\ tokens[2] = RParen)
            => /\ pc # "ParseError"
               /\ outcome.called
                    => LET a == parseTokens(<<tokens[1]>>)
                           A == Call(a.expr, info, fields)
                       IN /\ ~a.threw
                          /\ outcome.threw = A.threw
                          /\ outcome.val = A.val)

C8_Witness ==
    /\ Len(tokens) = 2 /\ IsLiteral(tokens[1]) /\ tokens[2] = RParen
    /\ outcome.called /\ ~outcome.threw
    /\ Len(outcome.val) = 1 /\ Len(fields) = 2

\* C9: on fields covered by the ScopeInfo an evaluator returns only members
\* of the fields it was given, and called again on its own result it
\* returns only members of that result.
C9_Narrowing ==
    (outcome.called /\ scopeExpr.fn # "undefined" /\ Covered(info, fields))
    => /\ ~outcome.threw
       /\ Range(outcome.val) \subseteq Range(fields)
       /\ LET again == Call(scopeExpr, info, outcome.val)
          IN /\ ~again.threw
             /\ Range(again.val) \subseteq Range(outcome.val)

C9_Witness ==
    /\ outcome.called /\ ~outcome.threw
    /\ scopeExpr.fn = "scopeNegate"
    /\ scopeExpr.subexpr.fn = "scopeLiteral"
    /\ Covered(info, fields)
    /\ Len(outcome.val) = 1 /\ Len(fields) = 2 /\ NoDuplicates(fields)

\* C10: parse("a&b") and parse("b&a") select the same set of fields on any
\* covered (ScopeInfo, fields), and so do parse("a|b") and parse("b|a").
C10_Commutative ==
    (/\ outcome.called
     /\ Len(tokens) = 3 /\ tokens[2] \in {AndTok, OrTok}
     /\ IsLiteral(tokens[1]) /\ IsLiteral(tokens[3])
     /\ Covered(info, fields))
    => LET swapped == parseTokens(<<tokens[3], tokens[2], tokens[1]>>)
           S == Call(swapped.expr, info, fields)
       IN /\ ~swapped.threw
          /\ ~outcome.threw /\ ~S.threw
          /\ Range(outcome.val) = Range(S.val)

C10_Witness ==
    /\ outcome.called /\ ~outcome.threw
    /\ Len(tokens) = 3 /\ tokens[2] \in {AndTok, OrTok}
    /\ IsLiteral(tokens[1]) /\ IsLiteral(tokens[3])
    /\ tokens[1] \in Scopes /\ tokens[3] \in Scopes
    /\ tokens[1] # tokens[3]
    /\ Covered(info, fields) /\ NoDuplicates(fields)
    /\ Len(outcome.val) = 1 /\ Len(fields) = 2

====
